---- MODULE Spec2Model ----
(***************************************************************************)
(* Email-campaign demo: the in-memory contact store (lib/db), the server   *)
(* actions of app/actions.ts, the open-tracking route app/api/track/[id]   *)
(* and the mail backend (backend/server.js, /api/health and                *)
(* /api/send-contact).                                                     *)
(*                                                                         *)
(* JavaScript strings are sequences of one-character strings.  Contact     *)
(* objects live in a heap and are referred to by reference: db.contacts    *)
(* and the pendingContacts array of a run hold references to the same      *)
(* objects.  Every `await` of an async function is a suspension point at   *)
(* which any other handler may run.                                        *)
(***************************************************************************)
EXTENDS Integers, Sequences, FiniteSets, TLC

\* ------------------------------------------------------------------ bounds
MaxObjs == 2      \* contact objects ever created
MaxBatch == 2     \* longest list handed to addContacts
MaxClock == 2     \* readings of the wall clock
NumRuns == 2      \* sendCampaign invocations that can be alive at once

\* ----------------------------------------------------------------- strings
UpperChars == << "A","B","C","D","E","F","G","H","I","J","K","L","M",
                 "N","O","P","Q","R","S","T","U","V","W","X","Y","Z" >>
LowerChars == << "a","b","c","d","e","f","g","h","i","j","k","l","m",
                 "n","o","p","q","r","s","t","u","v","w","x","y","z" >>
DigitChars == << "0","1","2","3","4","5","6","7","8","9" >>

IndexIn(c, chars) ==
  IF \E i \in 1..Len(chars) : chars[i] = c
  THEN CHOOSE i \in 1..Len(chars) : chars[i] = c
  ELSE 0

\* String.prototype.toLowerCase / toUpperCase, one character
LowerChar(c) == IF IndexIn(c, UpperChars) > 0 THEN LowerChars[IndexIn(c, UpperChars)] ELSE c
UpperChar(c) == IF IndexIn(c, LowerChars) > 0 THEN UpperChars[IndexIn(c, LowerChars)] ELSE c
toLowerCase(s) == [i \in 1..Len(s) |-> LowerChar(s[i])]
toUpperCase(s) == [i \in 1..Len(s) |-> UpperChar(s[i])]

IsSpace(c) == c \in {" ", "\t", "\n"}

\* String.prototype.trim
RECURSIVE trimStart(_)
trimStart(s) == IF s # <<>> /\ IsSpace(Head(s)) THEN trimStart(Tail(s)) ELSE s
RECURSIVE trimEnd(_)
trimEnd(s) ==
  IF s # <<>> /\ IsSpace(s[Len(s)]) THEN trimEnd(SubSeq(s, 1, Len(s) - 1)) ELSE s
trim(s) == trimEnd(trimStart(s))

\* Number.prototype.toString (non-negative integers, radix 10)
RECURSIVE toString(_)
toString(n) ==
  IF n < 10 THEN << DigitChars[n + 1] >>
  ELSE toString(n \div 10) \o << DigitChars[(n % 10) + 1] >>

\* parseInt: the longest prefix of decimal digits; NaN when there is none.
\* A JavaScript number is [nan, val].
Num(n) == [nan |-> FALSE, val |-> n]
NaN == [nan |-> TRUE, val |-> 0]
RECURSIVE DigitsValue(_, _)
DigitsValue(s, acc) ==
  IF s = <<>> \/ IndexIn(Head(s), DigitChars) = 0 THEN acc
  ELSE DigitsValue(Tail(s), acc * 10 + (IndexIn(Head(s), DigitChars) - 1))
parseInt(s) ==
  LET t == trimStart(s)
  IN IF t = <<>> \/ IndexIn(Head(t), DigitChars) = 0 THEN NaN ELSE Num(DigitsValue(t, 0))

\* Math.max(0, ...values): NaN as soon as one argument is NaN
RECURSIVE MathMax(_, _)
MathMax(acc, vals) ==
  IF vals = <<>> THEN acc
  ELSE IF Head(vals).nan \/ acc.nan THEN NaN
  ELSE MathMax(IF Head(vals).val > acc.val THEN Head(vals) ELSE acc, Tail(vals))

\* (n + 1).toString()
PlusOneToString(n) == IF n.nan THEN << "N", "a", "N" >> ELSE toString(n.val + 1)

\* Array.prototype.includes
includes(list, x) == \E i \in 1..Len(list) : list[i] = x

\* the comparison of one character under the flags of a RegExp
Fold(c, ignoreCase) == IF ignoreCase THEN LowerChar(c) ELSE c

\* true when the literal pat occurs in s at position k
MatchAt(s, pat, k, ignoreCase) ==
  /\ k + Len(pat) - 1 <= Len(s)
  /\ \A j \in 1..Len(pat) : Fold(s[k + j - 1], ignoreCase) = Fold(pat[j], ignoreCase)

\* The text a replacement string stands for at one match (GetSubstitution of
\* String.prototype.replace, for a pattern without capture groups): $$ is a
\* dollar sign, $& the matched text, $ with a grave accent the text before the
\* match, $ with an apostrophe the text after it; every other character stands
\* for itself.
GraveAccent == "grave"      \* the character U+0060
RECURSIVE GetSubstitution(_, _, _, _)
GetSubstitution(rep, matched, before, after) ==
  IF rep = <<>> THEN <<>>
  ELSE IF rep[1] = "$" /\ Len(rep) >= 2 /\ rep[2] \in {"$", "&", GraveAccent, "'"}
  THEN (CASE rep[2] = "$" -> << "$" >>
          [] rep[2] = "&" -> matched
          [] rep[2] = GraveAccent -> before
          [] OTHER -> after)
         \o GetSubstitution(SubSeq(rep, 3, Len(rep)), matched, before, after)
  ELSE << rep[1] >> \o GetSubstitution(Tail(rep), matched, before, after)

\* s.replace(new RegExp(pat, 'g' | 'gi'), rep) for a literal pattern: matches are
\* taken left to right and do not overlap.
\* ReplaceFrom is the result from position k on: the text up to the next match,
\* the substitution for that match, and the result from the end of the match on.
RECURSIVE ReplaceFrom(_, _, _, _, _)
ReplaceFrom(s, pat, rep, k, ignoreCase) ==
  IF \A a \in k..Len(s) : ~MatchAt(s, pat, a, ignoreCase)
  THEN SubSeq(s, k, Len(s))
  ELSE LET m == CHOOSE a \in k..Len(s) :
                  /\ MatchAt(s, pat, a, ignoreCase)
                  /\ \A j \in k..(a - 1) : ~MatchAt(s, pat, j, ignoreCase)
       IN SubSeq(s, k, m - 1)
            \o GetSubstitution(rep, SubSeq(s, m, m + Len(pat) - 1), SubSeq(s, 1, m - 1),
                               SubSeq(s, m + Len(pat), Len(s)))
            \o ReplaceFrom(s, pat, rep, m + Len(pat), ignoreCase)

replaceAll(s, pat, rep) == ReplaceFrom(s, pat, rep, 1, FALSE)
replaceAllIgnoreCase(s, pat, rep) == ReplaceFrom(s, pat, rep, 1, TRUE)

\* s.replace(/c{2,}/g, c): a run of two or more c becomes one c
RECURSIVE collapseRuns(_, _)
collapseRuns(s, c) ==
  IF Len(s) < 2 THEN s
  ELSE IF s[1] = c /\ s[2] = c THEN collapseRuns(Tail(s), c)
  ELSE << s[1] >> \o collapseRuns(Tail(s), c)

\* s.replace(/<[^>]*>/g, ''): a '<' with a later '>' is removed up to that '>'.
\* The first match starts at the first '<' that has a '>' after it, which is the
\* first '<' of s when there is a match at all.
RECURSIVE stripTags(_)
stripTags(s) ==
  IF \A a \in 1..Len(s) : s[a] # "<" \/ \A k \in (a + 1)..Len(s) : s[k] # ">"
  THEN s
  ELSE LET open == CHOOSE a \in 1..Len(s) :
                     /\ s[a] = "<"
                     /\ \E k \in (a + 1)..Len(s) : s[k] = ">"
                     /\ \A j \in 1..(a - 1) : s[j] # "<"
           close == CHOOSE k \in (open + 1)..Len(s) :
                      s[k] = ">" /\ \A j \in (open + 1)..(k - 1) : s[j] # ">"
       IN SubSeq(s, 1, open - 1) \o stripTags(SubSeq(s, close + 1, Len(s)))

\* new Date().toLocaleDateString() at clock reading t
toLocaleDateString(t) == toString(t) \o << "/", "1" >>

\* ------------------------------------------------------------------- state
VARIABLES
  heap,          \* contact objects, by reference (1..Len(heap))
  contacts,      \* db.contacts: array of references into heap
  campaign,      \* db.campaign
  clock,         \* wall clock read by new Date()
  run,           \* the sendCampaign invocations: locals and position
  inflight,      \* POST /api/send-contact requests not yet answered
  backend,       \* backend/server.js: emailService, serviceStatus, pending verify
  trackResponse, \* the response last returned by GET /api/track/[id]
  analytics,     \* the value last returned by getAnalytics
  posted         \* the last POST /api/send-contact of another client, and its answer

vars ==
  << heap, contacts, campaign, clock, run, inflight, backend, trackResponse, analytics, posted >>

RunIds == 1..NumRuns
Null == <<>>                       \* null
toISOString(t) == << t >>          \* new Date().toISOString(): one value per reading

\* lib/types.ts
Statuses == {"Pending", "Sent", "Error"}

\* Spread of two objects: { ...a, ...b }
Spread(a, b) ==
  [f \in DOMAIN a \cup DOMAIN b |-> IF f \in DOMAIN b THEN b[f] ELSE a[f]]

\* ------------------------------------------------------------------ inputs
\* Data handed to addContact / addContacts.  The second one lacks both names and
\* carries fields the type Omit<Contact, ...> excludes.
ContactInputs ==
  { [firstName |-> << " ", "a" >>, lastName |-> << "B" >>,
     email |-> << "A", "@", "x", " " >>],
    [firstName |-> <<>>, lastName |-> <<>>, email |-> << "b", "@", "x" >>,
     status |-> "Sent", sentTimestamp |-> toISOString(1),
     openTimestamp |-> toISOString(1)] }

BatchInputs ==
  UNION { [1..n -> ContactInputs] : n \in 0..MaxBatch }

\* Data handed to updateCampaign (partial objects are merged)
CampaignInputs ==
  { [subject |-> << "W", "I", "N", "!", "!" >>,
     body |-> << "O", "n", " ", "{", "{", "d", "a", "t", "e", "}", "}" >>,
     replyTo |-> << "r", "@", "x" >>] }

\* Names and templates for the text functions: a first name that holds a
\* replacement pattern of String.prototype.replace, and templates with the tokens
\* of personalizeContent that the initial campaign does not use
NameInputs ==
  { [firstName |-> << "$", "&" >>, lastName |-> << "B" >>, email |-> << "a", "@", "x" >>],
    [firstName |-> << "a" >>, lastName |-> <<>>, email |-> << "b", "@", "x" >>] }

TemplateInputs ==
  { [subject |-> << "{", "{", "l", "a", "s", "t", "N", "a", "m", "e", "}", "}" >>,
     body |-> << "{", "{", "d", "a", "t", "e", "}", "}", "{", "{", "x", "}", "}" >>] }

\* Subjects handed to updateCampaign for the subject sanitizer: two table phrases,
\* the phrase WINNER whose prefix WIN is an earlier key of the table, an upper-case
\* subject longer than five characters, a short upper-case one, and a mixed-case
\* one with a phrase in lower case
SubjectInputs ==
  { [subject |-> << "F","R","E","E"," ","M","O","N","E","Y" >>],
    [subject |-> << "W","I","N","N","E","R" >>],
    [subject |-> << "H","E","L","L","O","!","!","!" >>],
    [subject |-> << "O","K","?","?","!","!" >>],
    [subject |-> << "O","K","!","!" >>],
    [subject |-> << "a"," ","d","e","a","l","?","?","?" >>] }

IdStrings == { toString(n) : n \in 1..(MaxObjs + 1) }
\* ids in a URL or an id list: the ids the store can hold, one that matches none, ""
RequestIds == IdStrings \cup { << "0", "1" >>, <<>> }
IdLists == { <<>> } \cup { << a >> : a \in IdStrings }
             \cup { [k \in 1..n |-> toString(k)] : n \in 2..MaxObjs }

\* -------------------------------------------------------------- lib/db.ts
InitCampaign ==
  [ subject |-> << "H", "i", " ", "{", "{", "f", "i", "r", "s", "t", "N", "a", "m", "e",
                   "}", "}", " ", "F", "R", "E", "E", "!", "!" >>,
    body |-> << "D", "e", "a", "r", " ", "{", "{", "f", "u", "l", "l", "N", "a", "m", "e",
                "}", "}", "\n", "{", "{", "x", "}", "}" >>,
    senderName |-> << "S" >>,
    senderEmail |-> << "c", "@", "x" >>,
    replyTo |-> << "c", "@", "x" >> ]

\* -------------------------------------------------- backend/server.js, init
\* initEmailService: env says whether require('nodemailer') works, whether it has a
\* transport factory, and whether the SMTP_* variables are set.
Envs == [nodemailer : {"missing", "invalid", "ok"}, smtp : BOOLEAN]

initEmailService(env) ==
  IF env.nodemailer = "missing"
  THEN [emailService |-> Null, serviceStatus |-> "Nodemailer not installed",
        verifyPending |-> FALSE]
  ELSE IF env.nodemailer = "invalid"
  THEN [emailService |-> Null, serviceStatus |-> "Invalid nodemailer installation",
        verifyPending |-> FALSE]
  ELSE IF ~env.smtp
  THEN [emailService |-> Null, serviceStatus |-> "Missing SMTP configuration",
        verifyPending |-> FALSE]
  ELSE [emailService |-> << "transport" >>, serviceStatus |-> "Not initialized",
        verifyPending |-> TRUE]

\* VerifyCallback as it would be if the callback did not look at its error
VerifyCallbackIgnoresError(error) ==
  /\ backend.verifyPending
  /\ backend' = [backend EXCEPT !.verifyPending = FALSE, !.serviceStatus = "loaded"]
  /\ UNCHANGED << heap, contacts, campaign, clock, run, inflight, trackResponse, analytics,
                  posted >>

\* emailService.verify callback
VerifyCallback(error) ==
  /\ backend.verifyPending
  /\ backend' = [backend EXCEPT
       !.verifyPending = FALSE,
       !.serviceStatus = IF error THEN "SMTP connection failed: Invalid login"
                         ELSE "loaded"]
  /\ UNCHANGED << heap, contacts, campaign, clock, run, inflight, trackResponse, analytics, posted >>

\* ---------------------------------------------------------------- the clock
Tick ==
  /\ clock < MaxClock
  /\ clock' = clock + 1
  /\ UNCHANGED << heap, contacts, campaign, run, inflight, backend, trackResponse, analytics, posted >>

\* ------------------------------------------------------- app/actions.ts, store
IdleRun ==
  [ pc |-> "idle", pendingContacts |-> <<>>, i |-> 0, emailsSent |-> 0,
    emailsFailed |-> 0, errors |-> <<>>, response |-> Null, result |-> Null,
    submitted |-> <<>>, outcomes |-> <<>> ]

Init ==
  /\ heap = <<>>
  /\ contacts = <<>>
  /\ campaign = InitCampaign
  /\ clock = 1
  /\ run = [r \in RunIds |-> IdleRun]
  /\ inflight = {}
  /\ backend \in { initEmailService(env) : env \in Envs }
  /\ trackResponse = Null
  /\ analytics = Null
  /\ posted = Null

\* ContactIdNumbers as it would be if the ids came from a counter of the contacts
\* ever created
ContactIdNumbersEverCreated == [k \in 1..Len(heap) |-> parseInt(heap[k].id)]

\* db.contacts.map(c => parseInt(c.id))
ContactIdNumbers == [k \in 1..Len(contacts) |-> parseInt(heap[contacts[k]].id)]

\* NewContact as it would be if contactData were spread after the fixed fields
NewContactDataLast(contactData, id) ==
  Spread([id |-> id, status |-> "Pending", sentTimestamp |-> Null, openTimestamp |-> Null],
         contactData)

\* { ...contactData, id, status: 'Pending', sentTimestamp: null, openTimestamp: null }
NewContact(contactData, id) ==
  Spread(contactData,
         [id |-> id, status |-> "Pending", sentTimestamp |-> Null, openTimestamp |-> Null])

\* addContact, after its delay
addContact(contactData) ==
  /\ Len(heap) < MaxObjs
  /\ LET newId == PlusOneToString(MathMax(Num(0), ContactIdNumbers))
     IN /\ heap' = Append(heap, NewContact(contactData, newId))
        /\ contacts' = Append(contacts, Len(heap) + 1)
  /\ UNCHANGED << campaign, clock, run, inflight, backend, trackResponse, analytics, posted >>

\* BatchIds as it would be if maxId were not incremented in the loop
BatchIdsNotIncremented(maxId, n) ==
  [k \in 1..n |-> IF maxId.nan THEN << "N", "a", "N" >> ELSE toString(maxId.val + 1)]

\* addContacts, after its delay: the loop numbers the batch from the maximum read once
BatchIds(maxId, n) ==
  [k \in 1..n |-> IF maxId.nan THEN << "N", "a", "N" >> ELSE toString(maxId.val + k)]

addContacts(contactsData) ==
  /\ Len(heap) + Len(contactsData) <= MaxObjs
  /\ LET maxId == MathMax(Num(0), ContactIdNumbers)
         ids == BatchIds(maxId, Len(contactsData))
     IN /\ heap' = heap \o [k \in 1..Len(contactsData) |->
                               NewContact(contactsData[k], ids[k])]
        /\ contacts' = contacts \o [k \in 1..Len(contactsData) |-> Len(heap) + k]
  /\ UNCHANGED << campaign, clock, run, inflight, backend, trackResponse, analytics, posted >>

\* deleteContacts, after its delay
deleteContacts(ids) ==
  /\ LET Keep(ref) == ~includes(ids, heap[ref].id)
     IN contacts' = SelectSeq(contacts, Keep)
  /\ UNCHANGED << heap, campaign, clock, run, inflight, backend, trackResponse, analytics, posted >>

capitalize(s) ==
  IF s = <<>> THEN <<>>
  ELSE << UpperChar(s[1]) >> \o toLowerCase(SubSeq(s, 2, Len(s)))

InStore(ref) == \E k \in 1..Len(contacts) : contacts[k] = ref

\* CleanOne as it would be if the contact were rebuilt from its cleaned fields
CleanOneRebuilt(c) ==
  [c EXCEPT !.email = toLowerCase(trim(c.email)),
            !.firstName = capitalize(trim(c.firstName)),
            !.lastName = capitalize(trim(c.lastName)),
            !.status = "Pending", !.sentTimestamp = Null]

CleanOne(c) ==
  [c EXCEPT !.email = toLowerCase(trim(c.email)),
            !.firstName = capitalize(trim(c.firstName)),
            !.lastName = capitalize(trim(c.lastName))]

\* cleanContacts, after its delay
cleanContacts(ids) ==
  /\ heap' = [ref \in 1..Len(heap) |->
                IF InStore(ref) /\ includes(ids, heap[ref].id)
                THEN CleanOne(heap[ref]) ELSE heap[ref]]
  /\ UNCHANGED << contacts, campaign, clock, run, inflight, backend, trackResponse, analytics, posted >>

\* updateCampaign, after its delay
updateCampaign(data) ==
  /\ campaign' = Spread(campaign, data)
  /\ UNCHANGED << heap, contacts, clock, run, inflight, backend, trackResponse, analytics, posted >>

\* (n / d * 100).toFixed(2), as a number of hundredths: the quotient rounded to
\* two decimals
Percent(n, d) == (n * 20000 + d) \div (2 * d)

\* contacts.filter(c => ...).length, for the test of a status
StatusLength(status) ==
  Cardinality({ k \in 1..Len(contacts) : heap[contacts[k]].status = status })

\* Analytics as it would be if the opens were counted among the Sent contacts only
AnalyticsOpenedOfSent ==
  LET total == Len(contacts)
      sent == StatusLength("Sent")
      opened == Cardinality({ k \in 1..Len(contacts) :
                               /\ heap[contacts[k]].status = "Sent"
                               /\ heap[contacts[k]].openTimestamp # Null })
  IN [ total |-> total, sent |-> sent, pending |-> StatusLength("Pending"),
       errors |-> StatusLength("Error"), opened |-> opened,
       openRate |-> IF sent > 0 THEN Percent(opened, sent) ELSE 0,
       sentRate |-> IF total > 0 THEN Percent(sent, total) ELSE 0 ]

\* the object getAnalytics returns; the two rates in hundredths of a percent
Analytics ==
  LET total == Len(contacts)
      sent == StatusLength("Sent")
      opened == Cardinality({ k \in 1..Len(contacts) :
                               heap[contacts[k]].openTimestamp # Null })
  IN [ total |-> total, sent |-> sent, pending |-> StatusLength("Pending"),
       errors |-> StatusLength("Error"), opened |-> opened,
       openRate |-> IF sent > 0 THEN Percent(opened, sent) ELSE 0,
       sentRate |-> IF total > 0 THEN Percent(sent, total) ELSE 0 ]

\* getAnalytics, after its delay
getAnalytics ==
  /\ analytics' = Analytics
  /\ UNCHANGED << heap, contacts, campaign, clock, run, inflight, backend, trackResponse,
                  posted >>

\* ------------------------------------------------ app/api/track/[id]/route.ts
Pixel ==
  [ body |-> "R0lGODlhAQABAIAAAAAAAP///yH5BAEAAAAALAAAAAABAAEAAAIBRAA7",
    headers |-> [ContentType |-> "image/gif",
                 CacheControl |-> "no-cache, no-store, must-revalidate",
                 Pragma |-> "no-cache", Expires |-> "0"] ]

\* FindContact as it would be if ids were compared as numbers
FindContactNumeric(contactId) ==
  IF \E k \in 1..Len(contacts) : parseInt(heap[contacts[k]].id) = parseInt(contactId)
  THEN contacts[CHOOSE k \in 1..Len(contacts) :
                  /\ parseInt(heap[contacts[k]].id) = parseInt(contactId)
                  /\ \A j \in 1..(k - 1) :
                       parseInt(heap[contacts[j]].id) # parseInt(contactId)]
  ELSE 0

\* db.contacts.find(c => c.id === contactId): the first match, 0 when there is none
FindContact(contactId) ==
  IF \E k \in 1..Len(contacts) : heap[contacts[k]].id = contactId
  THEN contacts[CHOOSE k \in 1..Len(contacts) :
                  /\ heap[contacts[k]].id = contactId
                  /\ \A j \in 1..(k - 1) : heap[contacts[j]].id # contactId]
  ELSE 0

\* TrackedHeap as it would be without the test of contact.openTimestamp
TrackedHeapEveryOpen(contactId) ==
  LET ref == FindContact(contactId)
  IN IF contactId # <<>> /\ ref # 0
     THEN [heap EXCEPT ![ref].openTimestamp = toISOString(clock)]
     ELSE heap

TrackedHeap(contactId) ==
  LET ref == FindContact(contactId)
  IN IF contactId # <<>> /\ ref # 0 /\ heap[ref].openTimestamp = Null
     THEN [heap EXCEPT ![ref].openTimestamp = toISOString(clock)]
     ELSE heap

GET(contactId) ==
  /\ heap' = TrackedHeap(contactId)
  /\ trackResponse' = Pixel
  /\ UNCHANGED << contacts, campaign, clock, run, inflight, backend, analytics, posted >>

\* ------------------------------------------- app/actions.ts, text functions
spamWords ==
  << << << "F","R","E","E" >>, << "C","o","m","p","l","i","m","e","n","t","a","r","y" >> >>,
     << << "U","R","G","E","N","T" >>, << "I","m","p","o","r","t","a","n","t" >> >>,
     << << "A","C","T"," ","N","O","W" >>, << "T","a","k","e"," ","A","c","t","i","o","n" >> >>,
     << << "L","I","M","I","T","E","D"," ","T","I","M","E" >>,
        << "S","p","e","c","i","a","l"," ","O","f","f","e","r" >> >>,
     << << "C","L","I","C","K"," ","H","E","R","E" >>,
        << "L","e","a","r","n"," ","M","o","r","e" >> >>,
     << << "B","U","Y"," ","N","O","W" >>, << "G","e","t"," ","S","t","a","r","t","e","d" >> >>,
     << << "M","O","N","E","Y" >>, << "V","a","l","u","e" >> >>,
     << << "C","A","S","H" >>, << "S","a","v","i","n","g","s" >> >>,
     << << "W","I","N" >>, << "R","e","c","e","i","v","e" >> >>,
     << << "W","I","N","N","E","R" >>, << "S","e","l","e","c","t","e","d" >> >> ,
     << << "D","E","A","L" >>, << "O","f","f","e","r" >> >>,
     << << "S","A","L","E" >>, << "S","p","e","c","i","a","l"," ","P","r","i","c","e" >> >> >>

\* the for-in loop over spamWords, entries k..12
RECURSIVE ApplySpamWords(_, _)
ApplySpamWords(s, k) ==
  IF k > Len(spamWords) THEN s
  ELSE ApplySpamWords(replaceAllIgnoreCase(s, spamWords[k][1], spamWords[k][2]), k + 1)

SentenceCaseMinLen == 5

\* createAntiSpamSubject as it would be if each replace of the last line removed
\* one character of a run instead of reducing the run to one character
createAntiSpamSubjectPairs(subject, firstName) ==
  LET replaced == ApplySpamWords(subject, 1)
      recased == IF replaced = toUpperCase(replaced) /\ Len(replaced) > SentenceCaseMinLen
                 THEN << UpperChar(replaced[1]) >>
                        \o toLowerCase(SubSeq(replaced, 2, Len(replaced)))
                 ELSE replaced
  IN replaceAll(replaceAll(recased, << "!", "!" >>, << "!" >>), << "?", "?" >>, << "?" >>)

createAntiSpamSubject(subject, firstName) ==
  LET replaced == ApplySpamWords(subject, 1)
      recased == IF replaced = toUpperCase(replaced) /\ Len(replaced) > SentenceCaseMinLen
                 THEN << UpperChar(replaced[1]) >>
                        \o toLowerCase(SubSeq(replaced, 2, Len(replaced)))
                 ELSE replaced
  IN collapseRuns(collapseRuns(recased, "!"), "?")

FullName(contact) == trim(contact.firstName \o << " " >> \o contact.lastName)

personalizeContent(content, contact) ==
  LET a == replaceAll(content, << "{","{","f","i","r","s","t","N","a","m","e","}","}" >>,
                      contact.firstName)
      b == replaceAll(a, << "{","{","l","a","s","t","N","a","m","e","}","}" >>,
                      contact.lastName)
      c == replaceAll(b, << "{","{","f","u","l","l","N","a","m","e","}","}" >>,
                      FullName(contact))
  IN replaceAll(c, << "{","{","d","a","t","e","}","}" >>, toLocaleDateString(clock))

\* --------------------------------------- backend/server.js, request handlers
\* GET /api/health: the body's emailService field
HealthBody == [status |-> "running", emailService |-> backend.serviceStatus,
               transporterCreated |-> (backend.emailService # Null)]

SmtpFrom == << "m", "e", "@", "x" >>     \* SMTP_FROM_EMAIL || SMTP_USER

\* mailOptions of POST /api/send-contact
MailOptions(body) ==
  [ from |-> << "\"" >> \o body.name \o << "\"", " ", "<" >> \o SmtpFrom \o << ">" >>,
    to |-> SmtpFrom,
    replyTo |-> body.email,
    subject |-> << "C","o","n","t","a","c","t"," ","F","o","r","m",":"," " >>
                  \o (IF body.subject # <<>> THEN body.subject
                      ELSE << "M","e","s","s","a","g","e"," ","f","r","o","m"," " >>
                             \o body.name),
    html |-> body.htmlContent,
    text |-> body.message ]

\* sendContact as it would be without the test of name, email and message
sendContactNoFieldTest(body, sendMailOk) ==
  IF backend.emailService = Null
  THEN [ok |-> FALSE, status |-> 500, sentMail |-> Null,
        json |-> [success |-> FALSE, message |-> "Email service not configured"]]
  ELSE IF sendMailOk
  THEN [ok |-> TRUE, status |-> 200, sentMail |-> MailOptions(body),
        json |-> [success |-> TRUE, message |-> "Email sent successfully"]]
  ELSE [ok |-> FALSE, status |-> 500, sentMail |-> MailOptions(body),
        json |-> [success |-> FALSE, message |-> "Failed to send email"]]

\* POST /api/send-contact: the response to a request body, sendMailOk being the
\* outcome of emailService.sendMail when the handler gets that far
sendContact(body, sendMailOk) ==
  IF backend.emailService = Null
  THEN [ok |-> FALSE, status |-> 500, sentMail |-> Null,
        json |-> [success |-> FALSE, message |-> "Email service not configured"]]
  ELSE IF body.name = <<>> \/ body.email = <<>> \/ body.message = <<>>
  THEN [ok |-> FALSE, status |-> 400, sentMail |-> Null,
        json |-> [success |-> FALSE, message |-> "Name, email, and message are required"]]
  ELSE IF sendMailOk
  THEN [ok |-> TRUE, status |-> 200, sentMail |-> MailOptions(body),
        json |-> [success |-> TRUE, message |-> "Email sent successfully"]]
  ELSE [ok |-> FALSE, status |-> 500, sentMail |-> MailOptions(body),
        json |-> [success |-> FALSE, message |-> "Failed to send email"]]

\* Request bodies of a client other than sendCampaign: each of name, email and
\* message is present or empty
BodyInputs ==
  [ name : { <<>>, << "n" >> }, email : { <<>>, << "e", "@", "x" >> },
    subject : { << "s" >> }, message : { <<>>, << "m" >> },
    htmlContent : { << "<", "p", ">" >> } ]

\* POST /api/send-contact from a client other than sendCampaign, handled at once
PostSendContact(body, sendMailOk) ==
  /\ posted' = [body |-> body, sendMailOk |-> sendMailOk,
                response |-> sendContact(body, sendMailOk)]
  /\ UNCHANGED << heap, contacts, campaign, clock, run, inflight, backend, trackResponse,
                  analytics >>

\* ------------------------------------------- app/actions.ts, sendCampaign
BaseUrl == << "h", ":", "9", "0", "0", "2" >>

\* the HTML document of one message, its fixed text shortened
EmailHtml(finalSubject, personalizedBody, contact) ==
  << "<", "t", ">" >> \o finalSubject \o << "<", "/", "t", ">" >>
    \o << "<", "h", ">", "F", "r", "o", "m", " " >> \o campaign.senderName
    \o << "<", "/", "h", ">" >>
    \o replaceAll(personalizedBody, << "\n" >>, << "<", "b", "r", ">" >>)
    \o << "<", "p", ">", "B", "y", " " >> \o campaign.senderName \o << " ", "|", " " >>
    \o toLocaleDateString(clock)
    \o << "<", "/", "p", ">", "<", "p", ">", "T", "o", " " >> \o contact.email
    \o << "<", "/", "p", ">" >>
    \o << "<", "i", "m", "g", " " >> \o BaseUrl
    \o << "/", "a", "p", "i", "/", "t", "r", "a", "c", "k", "/" >> \o contact.id
    \o << ">" >>

\* RequestBody as it would be if the run used the campaign the module was loaded
\* with
RequestBodyInitialCampaign(contact) ==
  LET personalizedSubject == personalizeContent(InitCampaign.subject, contact)
      finalSubject == createAntiSpamSubject(personalizedSubject, contact.firstName)
      personalizedBody == personalizeContent(InitCampaign.body, contact)
      emailHtml == EmailHtml(finalSubject, personalizedBody, contact)
  IN [ name |-> FullName(contact),
       email |-> contact.email,
       subject |-> finalSubject,
       message |-> stripTags(emailHtml),
       htmlContent |-> emailHtml ]

\* the body sendEmailViaBackend posts for a contact
RequestBody(contact) ==
  LET personalizedSubject == personalizeContent(campaign.subject, contact)
      finalSubject == createAntiSpamSubject(personalizedSubject, contact.firstName)
      personalizedBody == personalizeContent(campaign.body, contact)
      emailHtml == EmailHtml(finalSubject, personalizedBody, contact)
  IN [ name |-> FullName(contact),
       email |-> contact.email,
       subject |-> finalSubject,
       message |-> stripTags(emailHtml),
       htmlContent |-> emailHtml ]

\* PendingContacts as it would be if a run took every contact of the store
PendingContactsAll == contacts

\* PendingContacts as it would be if the filter kept every contact not yet Sent
PendingContactsNotSent ==
  LET NotSent(ref) == heap[ref].status # "Sent"
  IN SelectSeq(contacts, NotSent)

\* db.contacts.filter(contact => contact.status === 'Pending')
PendingContacts ==
  LET IsPending(ref) == heap[ref].status = "Pending"
  IN SelectSeq(contacts, IsPending)

\* NoPendingResult as it would be if the early return reported a success
NoPendingResultSuccess == [success |-> TRUE, message |-> "No pending contacts to send to!"]

NoPendingResult == [success |-> FALSE, message |-> "No pending contacts to send to!"]

ConfigErrorResult(error) ==
  [ success |-> FALSE,
    message |-> "Cannot connect to email backend. Please make sure the backend server is running on port 5000.",
    error |-> error ]

\* the value returned after the loop
Summary(rec) ==
  [ success |-> rec.emailsSent > 0,
    message |-> IF rec.emailsFailed > 0
                THEN << "Campaign completed!", rec.emailsSent, rec.emailsFailed >>
                ELSE << "Campaign sent successfully", rec.emailsSent >>,
    stats |-> [sent |-> rec.emailsSent, failed |-> rec.emailsFailed,
               total |-> Len(rec.pendingContacts)],
    errors |-> rec.errors ]

Active(r) == run[r].pc \notin {"idle", "done"}

\* the contact a run is processing
Current(r) == run[r].pendingContacts[run[r].i]

\* LoopStep as it would be if the catch block ended the loop
LoopStepHaltOnFailure(r, rec, h, net) ==
  IF rec.i < Len(rec.pendingContacts) /\ rec.emailsFailed = 0
  THEN LET ref == rec.pendingContacts[rec.i + 1]
       IN /\ run' = [run EXCEPT ![r] = [rec EXCEPT !.pc = "send", !.i = rec.i + 1,
                                                    !.response = Null,
                                                    !.submitted = Append(rec.submitted, ref)]]
          /\ inflight' = net \cup { [run |-> r, obj |-> ref, body |-> RequestBody(h[ref])] }
  ELSE /\ run' = [run EXCEPT ![r] = [rec EXCEPT !.pc = "done", !.response = Null,
                                                    !.result = Summary(rec)]]
       /\ inflight' = net

\* LoopStep as it would be if the POST were not awaited: the loop goes on to the
\* following contact at once
LoopStepNoAwait(r, rec, h, net) ==
  IF rec.i < Len(rec.pendingContacts)
  THEN LET ref == rec.pendingContacts[rec.i + 1]
           rest == { rec.pendingContacts[k] : k \in (rec.i + 1)..Len(rec.pendingContacts) }
       IN /\ run' = [run EXCEPT ![r] = [rec EXCEPT !.pc = "send", !.i = rec.i + 1,
                                                    !.response = Null,
                                                    !.submitted = Append(rec.submitted, ref)]]
          /\ inflight' = net \cup { [run |-> r, obj |-> o, body |-> RequestBody(h[o])] :
                                      o \in rest }
  ELSE /\ run' = [run EXCEPT ![r] = [rec EXCEPT !.pc = "done", !.response = Null,
                                                    !.result = Summary(rec)]]
       /\ inflight' = net

\* The next iteration of the for-of loop, from locals rec, heap h and the requests
\* net still unanswered: either the POST for the next contact is issued, or the loop
\* ends and the summary is returned.
LoopStep(r, rec, h, net) ==
  IF rec.i < Len(rec.pendingContacts)
  THEN LET ref == rec.pendingContacts[rec.i + 1]
       IN /\ run' = [run EXCEPT ![r] = [rec EXCEPT !.pc = "send", !.i = rec.i + 1,
                                                    !.response = Null,
                                                    !.submitted = Append(rec.submitted, ref)]]
          /\ inflight' = net \cup { [run |-> r, obj |-> ref, body |-> RequestBody(h[ref])] }
  ELSE /\ run' = [run EXCEPT ![r] = [rec EXCEPT !.pc = "done", !.response = Null,
                                                    !.result = Summary(rec)]]
       /\ inflight' = net

\* MarkError as it would be if the catch block reset the timestamps
MarkErrorTimestampsReset(contact) ==
  [contact EXCEPT !.status = "Error", !.sentTimestamp = Null, !.openTimestamp = Null]

\* MarkError as it would be if the catch block did not write the status
MarkErrorLeftPending(contact) == contact

\* contact.status = 'Error' of the catch block
MarkError(contact) == [contact EXCEPT !.status = "Error"]

\* Failed as it would be if the catch block did not count the failure
FailedNotCounted(rec, contact, message) ==
  [rec EXCEPT !.errors = Append(rec.errors, [email |-> contact.email, message |-> message]),
              !.outcomes = Append(rec.outcomes, "failed")]

\* the catch block of the loop body
Failed(rec, contact, message) ==
  [rec EXCEPT !.emailsFailed = rec.emailsFailed + 1,
              !.errors = Append(rec.errors, [email |-> contact.email, message |-> message]),
              !.outcomes = Append(rec.outcomes, "failed")]

\* a call of sendCampaign, up to await delay(1000); the invocation takes the first
\* free place of run
sendCampaign(r) ==
  /\ ~Active(r)
  /\ \A q \in 1..(r - 1) : Active(q)
  /\ run' = [run EXCEPT ![r] = [IdleRun EXCEPT !.pc = "delay"]]
  /\ UNCHANGED << heap, contacts, campaign, clock, inflight, backend, trackResponse, analytics, posted >>

\* from the delay to the health-check fetch, or to the early return
Select(r) ==
  /\ run[r].pc = "delay"
  /\ LET pendingContacts == PendingContacts
     IN IF Len(pendingContacts) = 0
        THEN run' = [run EXCEPT ![r].pc = "done", ![r].result = NoPendingResult]
        ELSE run' = [run EXCEPT ![r].pc = "health",
                                ![r].pendingContacts = pendingContacts]
  /\ UNCHANGED << heap, contacts, campaign, clock, inflight, backend, trackResponse, analytics, posted >>

\* fetch('/api/health') rejects, or resolves with a response that is not ok
HealthFails(r, error) ==
  /\ run[r].pc = "health"
  /\ run' = [run EXCEPT ![r].pc = "done", ![r].result = ConfigErrorResult(error)]
  /\ UNCHANGED << heap, contacts, campaign, clock, inflight, backend, trackResponse, analytics, posted >>

\* fetch('/api/health') resolves with the backend's answer
HealthResponds(r) ==
  /\ run[r].pc = "health"
  /\ run' = [run EXCEPT ![r].pc = "healthJson", ![r].response = HealthBody]
  /\ UNCHANGED << heap, contacts, campaign, clock, inflight, backend, trackResponse, analytics, posted >>

\* HealthJson as it would be without the test of health.emailService
HealthJsonNoTest(r) ==
  /\ run[r].pc = "healthJson"
  /\ LoopStep(r, run[r], heap, inflight)
  /\ UNCHANGED << heap, contacts, campaign, clock, backend, trackResponse, analytics, posted >>

\* healthCheck.json() resolves: the emailService test, then the first iteration
HealthJson(r) ==
  /\ run[r].pc = "healthJson"
  /\ IF run[r].response.emailService # "loaded"
     THEN /\ run' = [run EXCEPT ![r].pc = "done", ![r].response = Null,
                       ![r].result =
                         ConfigErrorResult("Email service not properly loaded on backend")]
          /\ inflight' = inflight
     ELSE LoopStep(r, run[r], heap, inflight)
  /\ UNCHANGED << heap, contacts, campaign, clock, backend, trackResponse, analytics, posted >>

\* the POST of sendEmailViaBackend rejects (network error): catch, next iteration
FetchFails(r) ==
  /\ run[r].pc = "send"
  /\ \E m \in inflight :
       /\ m.run = r
       /\ LET ref == Current(r)
              h == [heap EXCEPT ![ref] = MarkError(heap[ref])]
          IN /\ heap' = h
             /\ LoopStep(r, Failed(run[r], heap[ref], "fetch failed"), h, inflight \ {m})
  /\ UNCHANGED << contacts, campaign, clock, backend, trackResponse, analytics, posted >>

\* POST /api/send-contact handled by the backend; the fetch resolves with its answer
SendContactResponds(r, sendMailOk) ==
  /\ run[r].pc = "send"
  /\ \E m \in inflight :
       /\ m.run = r
       /\ LET response == sendContact(m.body, sendMailOk)
          IN run' = [run EXCEPT ![r].pc = IF response.ok THEN "resultJson" ELSE "errorJson",
                                ![r].response = response]
       /\ inflight' = inflight \ {m}
  /\ UNCHANGED << heap, contacts, campaign, clock, backend, trackResponse, analytics, posted >>

\* response.json() of a response that is not ok resolves: throw, catch, next iteration
ErrorJson(r) ==
  /\ run[r].pc = "errorJson"
  /\ LET ref == Current(r)
         h == [heap EXCEPT ![ref] = MarkError(heap[ref])]
         message == "Backend error: " \o run[r].response.json.message
     IN /\ heap' = h
        /\ LoopStep(r, Failed(run[r], heap[ref], message), h, inflight)
  /\ UNCHANGED << contacts, campaign, clock, backend, trackResponse, analytics, posted >>

\* the try block after a successful send, up to await delay(500)
Succeeded(rec) ==
  [rec EXCEPT !.pc = "pause", !.response = Null, !.emailsSent = rec.emailsSent + 1,
              !.outcomes = Append(rec.outcomes, "sent")]

\* MarkSent as it would be if the timestamp were not written
MarkSentNoTimestamp(contact) == [contact EXCEPT !.status = "Sent"]

MarkSent(contact) ==
  [contact EXCEPT !.status = "Sent", !.sentTimestamp = toISOString(clock)]

\* response.json() of an ok response resolves
ResultJson(r) ==
  /\ run[r].pc = "resultJson"
  /\ heap' = [heap EXCEPT ![Current(r)] = MarkSent(heap[Current(r)])]
  /\ run' = [run EXCEPT ![r] = Succeeded(run[r])]
  /\ UNCHANGED << contacts, campaign, clock, inflight, backend, trackResponse, analytics, posted >>

\* the delay between two emails is over: next iteration
Pause(r) ==
  /\ run[r].pc = "pause"
  /\ LoopStep(r, run[r], heap, inflight)
  /\ UNCHANGED << heap, contacts, campaign, clock, backend, trackResponse, analytics, posted >>

\* ------------------------------------------------------------ specifications
NoRunActive == \A q \in RunIds : ~Active(q)

StoreNext ==
  \/ \E contactData \in ContactInputs : addContact(contactData)
  \/ \E contactsData \in BatchInputs : addContacts(contactsData)
  \/ \E ids \in IdLists : deleteContacts(ids)
  \/ \E ids \in IdLists : cleanContacts(ids)
  \/ \E data \in CampaignInputs : updateCampaign(data)
  \/ \E contactId \in RequestIds : GET(contactId)

RunNext(r) ==
  \/ Select(r)
  \/ \E error \in {"fetch failed", "Backend server not responding"} : HealthFails(r, error)
  \/ HealthResponds(r)
  \/ HealthJson(r)
  \/ FetchFails(r)
  \/ \E sendMailOk \in BOOLEAN : SendContactResponds(r, sendMailOk)
  \/ ErrorJson(r)
  \/ ResultJson(r)
  \/ Pause(r)

EnvNext ==
  \/ Tick
  \/ \E error \in BOOLEAN : VerifyCallback(error)

\* runs are invoked one after the other
Next ==
  \/ StoreNext
  \/ EnvNext
  \/ \E r \in RunIds : NoRunActive /\ sendCampaign(r)
  \/ \E r \in RunIds : RunNext(r)

Spec == Init /\ [][Next]_vars

\* the guards of the disjuncts of RunNext(r): ENABLED <<RunNext(r)>>_vars
RunEnabled(r) ==
  \/ run[r].pc \in {"delay", "health", "healthJson", "errorJson", "resultJson", "pause"}
  \/ run[r].pc = "send" /\ \E m \in inflight : m.run = r

\* WF_vars(RunNext(r)) with its ENABLED written out as RunEnabled(r): every timer
\* of a run fires, and every health-check and transport call of a run returns or
\* fails
WeakFairRunNext(r) == []<>(~RunEnabled(r)) \/ []<><<RunNext(r)>>_vars

SpecLive == Init /\ [][Next]_vars /\ \A r \in RunIds : WeakFairRunNext(r)

\* sendCampaign may be invoked while earlier invocations are suspended; of the
\* store operations only the insertion of contacts, which gives the runs their
\* work
NextOverlap ==
  \/ \E contactData \in ContactInputs : addContact(contactData)
  \/ \E error \in BOOLEAN : VerifyCallback(error)
  \/ \E r \in RunIds : sendCampaign(r)
  \/ \E r \in RunIds : RunNext(r)

SpecOverlap == Init /\ [][NextOverlap]_vars

\* getAnalytics called at any moment between the operations that change what it
\* reads: the contact list, the statuses and the openTimestamps
NextAnalytics ==
  \/ getAnalytics
  \/ \E contactData \in ContactInputs : addContact(contactData)
  \/ \E ids \in IdLists : deleteContacts(ids)
  \/ \E contactId \in RequestIds : GET(contactId)
  \/ \E error \in BOOLEAN : VerifyCallback(error)
  \/ \E r \in RunIds : NoRunActive /\ sendCampaign(r)
  \/ \E r \in RunIds : RunNext(r)

SpecAnalytics == Init /\ [][NextAnalytics]_vars

\* runs over contacts and templates chosen for the text functions
NextText ==
  \/ \E contactData \in NameInputs : addContact(contactData)
  \/ \E data \in TemplateInputs : updateCampaign(data)
  \/ \E error \in BOOLEAN : VerifyCallback(error)
  \/ \E r \in RunIds : NoRunActive /\ sendCampaign(r)
  \/ \E r \in RunIds : RunNext(r)

SpecText == Init /\ [][NextText]_vars

\* runs over campaigns whose subject is chosen for createAntiSpamSubject
NextSubject ==
  \/ \E contactData \in NameInputs : addContact(contactData)
  \/ \E data \in SubjectInputs : updateCampaign(data)
  \/ \E error \in BOOLEAN : VerifyCallback(error)
  \/ \E r \in RunIds : NoRunActive /\ sendCampaign(r)
  \/ \E r \in RunIds : RunNext(r)

SpecSubject == Init /\ [][NextSubject]_vars

\* the backend serving campaign runs and requests of other clients
NextBackend ==
  \/ \E body \in BodyInputs, sendMailOk \in BOOLEAN : PostSendContact(body, sendMailOk)
  \/ \E error \in BOOLEAN : VerifyCallback(error)
  \/ \E contactData \in ContactInputs : addContact(contactData)
  \/ \E r \in RunIds : NoRunActive /\ sendCampaign(r)
  \/ \E r \in RunIds : RunNext(r)

SpecBackend == Init /\ [][NextBackend]_vars

\* the store operations and the tracking route alone, no campaign run
SpecStore == Init /\ [][StoreNext]_vars

\* ------------------------------------------------------------------ claims
Range(seq) == { seq[k] : k \in 1..Len(seq) }
NoDuplicates(seq) == \A j, k \in 1..Len(seq) : seq[j] = seq[k] => j = k
Refs == 1..Len(heap)
\* a run that went through the loop and returned its summary
Completed(r) == run[r].pc = "done" /\ "stats" \in DOMAIN run[r].result
\* a run that returned the configuration error of the pre-check
Aborted(r) == run[r].pc = "done" /\ "error" \in DOMAIN run[r].result

\* C1: partial-failure isolation.  When a run that passed the pre-check has
\* returned, every contact it selected has been submitted, in order; each contact
\* whose submission succeeded is Sent with a sentTimestamp, each contact whose
\* submission failed is Error, whatever the outcomes of the contacts before it.
C1_PartialFailureIsolation ==
  \A r \in RunIds :
    Completed(r) =>
      /\ run[r].submitted = run[r].pendingContacts
      /\ Len(run[r].outcomes) = Len(run[r].pendingContacts)
      /\ \A k \in 1..Len(run[r].pendingContacts) :
           LET c == heap[run[r].pendingContacts[k]]
           IN /\ run[r].outcomes[k] = "sent" =>
                   c.status = "Sent" /\ c.sentTimestamp # Null
              /\ run[r].outcomes[k] = "failed" => c.status = "Error"

\* a run whose first contact failed and whose second contact was sent
C1_Witness ==
  \E r \in RunIds :
    /\ Completed(r)
    /\ run[r].outcomes = << "failed", "sent" >>
    /\ heap[run[r].pendingContacts[2]].status = "Sent"

\* the contacts of the store that are Pending
StorePending == { ref \in Range(contacts) : heap[ref].status = "Pending" }
\* the step is the pre-flight abort of run r
AbortStep(r) ==
  /\ run'[r].pc = "done"
  /\ "error" \in DOMAIN run'[r].result
  /\ run'[r].result.success = FALSE
  /\ run'[r].submitted = <<>>
  /\ UNCHANGED << heap, contacts, inflight >>

\* C2: pre-flight abort.  A run that selected at least one Pending contact and
\* whose health check fails (the request throws or is answered not ok, or the
\* emailService it reports is not 'loaded') returns the configuration error with
\* success false in that very step, without a submission and without a change to
\* any contact; until the health check has passed the run submits nothing and
\* none of its steps changes a contact.
C2_PreflightAbort ==
  /\ [][\A r \in RunIds :
          /\ (run[r].pc = "health" /\ run'[r].pc \notin {"health", "healthJson"})
               => AbortStep(r)
          /\ (run[r].pc = "healthJson" /\ run[r].response.emailService # "loaded"
                /\ run'[r] # run[r]) => AbortStep(r)
          /\ (run[r].pc = "healthJson" /\ run'[r].pc = "done") => AbortStep(r)
          /\ (run'[r] # run[r] /\ run'[r].pc \in {"delay", "health", "healthJson"})
               => UNCHANGED << heap, contacts, inflight >>]_vars
  /\ [](\A r \in RunIds :
          (run[r].pc \in {"delay", "health", "healthJson"} \/ Aborted(r)) =>
             /\ run[r].submitted = <<>>
             /\ \A m \in inflight : m.run # r)

\* a run aborted by the pre-check while a contact of the store is Pending
C2_Witness ==
  \E r \in RunIds :
    /\ Aborted(r)
    /\ run[r].result.error = "Email service not properly loaded on backend"
    /\ Len(run[r].pendingContacts) > 0
    /\ StorePending # {}

\* C3: idempotence of skip.  A run that comes out of its initial delay when no
\* contact of the store is Pending returns the 'no pending contacts' result in
\* that step: no health check, no submission, nothing sent, the store unchanged.
C3_SkipWhenNothingPending ==
  [][\A r \in RunIds :
       (run[r].pc = "delay" /\ StorePending = {} /\ run'[r] # run[r]) =>
          /\ run'[r].pc = "done"
          /\ run'[r].result = NoPendingResult
          /\ run'[r].emailsSent = 0
          /\ run'[r].submitted = <<>>
          /\ UNCHANGED << heap, contacts, campaign, inflight >>]_vars

\* a run skipped over a store whose contacts an earlier run has all processed
C3_Witness ==
  \E r \in RunIds :
    /\ run[r].pc = "done"
    /\ run[r].result = NoPendingResult
    /\ contacts # <<>>
    /\ StorePending = {}

\* C4: every contact of the store has one of the three statuses, and a
\* sentTimestamp exactly when its status is Sent.
C4_StatusAndSentTimestamp ==
  \A ref \in Range(contacts) :
    /\ heap[ref].status \in Statuses
    /\ (heap[ref].sentTimestamp # Null) <=> (heap[ref].status = "Sent")

\* a store that holds a Sent contact and an Error contact
C4_Witness ==
  /\ \E ref \in Range(contacts) : heap[ref].status = "Sent"
  /\ \E ref \in Range(contacts) : heap[ref].status = "Error"

\* C5: tracking is first-write-wins.  Once a contact's openTimestamp is set, no
\* step changes it: a later tracking request for the same id, at a later clock
\* reading, leaves the value of the first one.
C5_FirstWriteWins ==
  [][\A ref \in Refs :
       heap[ref].openTimestamp # Null =>
         heap'[ref].openTimestamp = heap[ref].openTimestamp]_vars

\* a contact whose open was tracked at an earlier clock reading than the present one
C5_Witness ==
  \E ref \in Range(contacts) :
    /\ heap[ref].openTimestamp = toISOString(1)
    /\ clock > 1
    /\ trackResponse = Pixel

\* C6: a tracking request for an id that matches no contact of the store leaves
\* the store as it is, and every tracking request, matched or not, is answered
\* with the fixed pixel and its cache-disabling headers.
C6_TrackingUnknownId ==
  [][\A contactId \in RequestIds :
       GET(contactId) =>
         /\ trackResponse' = Pixel
         /\ trackResponse'.headers.CacheControl = "no-cache, no-store, must-revalidate"
         /\ (\A ref \in Range(contacts) : heap[ref].id # contactId) =>
               UNCHANGED << heap, contacts, campaign >>]_vars

\* a request was answered while the store holds contacts none of which is opened
C6_Witness ==
  /\ trackResponse = Pixel
  /\ contacts # <<>>
  /\ \A ref \in Refs : heap[ref].openTimestamp = Null

\* C7: no automatic retry.  A run selects exactly the contacts of the store that
\* are Pending, submits only contacts it selected, each at most once, and a
\* contact is Pending at the moment it is submitted: a contact that is Error or
\* Sent is not submitted again by a later run.
C7_NoAutomaticRetry ==
  /\ [][\A r \in RunIds :
          /\ (run[r].pc = "delay" /\ run'[r].pc # "delay") =>
                Range(run'[r].pendingContacts) = StorePending
          /\ \A m \in inflight' \ inflight :
                m.run = r => /\ heap'[m.obj].status = "Pending"
                             /\ m.obj \in Range(run'[r].pendingContacts)
                             /\ m.obj \notin Range(run[r].submitted)
                             /\ run'[r].submitted = Append(run[r].submitted, m.obj)]_vars
  /\ [](\A r \in RunIds :
          /\ NoDuplicates(run[r].submitted)
          /\ Range(run[r].submitted) \subseteq Range(run[r].pendingContacts))

\* a later run found a contact in Error and returned without submitting it
C7_Witness ==
  \E r \in RunIds :
    /\ run[r].pc = "done"
    /\ run[r].result = NoPendingResult
    /\ \E ref \in Range(contacts) : heap[ref].status = "Error"

\* C8: strictly sequential processing.  A run has at most one submission in
\* flight, only while it awaits the POST, and for the contact at its loop
\* position; the contacts it has submitted are its selection in list order up to
\* that position, and every contact before that position has its outcome written.
C8_SequentialInListOrder ==
  \A r \in RunIds :
    LET mine == { m \in inflight : m.run = r }
    IN /\ Cardinality(mine) <= 1
       /\ mine # {} => run[r].pc = "send"
       /\ \A m \in mine : m.obj = Current(r)
       /\ run[r].submitted = SubSeq(run[r].pendingContacts, 1, run[r].i)
       /\ Active(r) =>
            \A k \in 1..(run[r].i - 1) :
              /\ heap[run[r].pendingContacts[k]].status \in {"Sent", "Error"}
              /\ k <= Len(run[r].outcomes)

\* the submission of the second contact is in flight, the first one has its outcome
C8_Witness ==
  \E r \in RunIds :
    /\ run[r].pc = "send"
    /\ run[r].i = 2
    /\ \E m \in inflight : m.run = r /\ m.obj = run[r].pendingContacts[2]
    /\ heap[run[r].pendingContacts[1]].status = "Error"

\* C9: run completion.  Every run that has been invoked returns; while it is
\* suspended, the timer or call it waits for is pending.  When a run that passed
\* the pre-check has returned, none of the contacts it selected is Pending.  A step
\* changes the status of no contact other than the one a run is processing, a
\* contact enters the heap as Pending, and a run coming out of its delay selects
\* every Pending contact of the store: a contact added after the selection stays
\* Pending and belongs to the next run's selection.
C9_RunCompletion ==
  /\ \A r \in RunIds : (run[r].pc = "delay") ~> (run[r].pc = "done")
  /\ [](\A r \in RunIds :
          /\ Active(r) => RunEnabled(r)
          /\ Completed(r) =>
               \A ref \in Range(run[r].pendingContacts) :
                 heap[ref].status \in {"Sent", "Error"})
  /\ [][/\ \A ref \in 1..Len(heap') :
             IF ref \in Refs
             THEN heap'[ref].status # heap[ref].status =>
                    \E r \in RunIds : run[r].i > 0 /\ ref = Current(r)
             ELSE heap'[ref].status = "Pending"
        /\ \A r \in RunIds :
             (run[r].pc = "delay" /\ run'[r].pc # "delay") =>
                StorePending \subseteq Range(run'[r].pendingContacts)]_vars

\* a run has returned its summary while a contact added after its selection is
\* still Pending in the store
C9_Witness ==
  \E r \in RunIds :
    /\ Completed(r)
    /\ \E ref \in Range(contacts) :
         ref \notin Range(run[r].pendingContacts) /\ heap[ref].status = "Pending"

\* the number of contacts selected by run r whose status is st
Selected(r, st) ==
  Cardinality({ k \in 1..Len(run[r].pendingContacts) :
                  heap[run[r].pendingContacts[k]].status = st })

\* C10: run summary.  The summary of a run that passed the pre-check counts as
\* sent the contacts the run set to Sent and as failed those it set to Error;
\* sent + failed is the number of contacts selected (stats.total); the errors
\* list has one entry per failed contact, appended when that contact fails, so in
\* processing order, and naming that contact's email.
C10_RunSummary ==
  /\ [](\A r \in RunIds :
          Completed(r) =>
            LET res == run[r].result
            IN /\ res.stats.sent = Selected(r, "Sent")
               /\ res.stats.failed = Selected(r, "Error")
               /\ res.stats.sent + res.stats.failed = res.stats.total
               /\ res.stats.total = Len(run[r].pendingContacts)
               /\ Len(res.errors) = res.stats.failed
               /\ res.errors = run[r].errors)
  /\ [][\A r \in RunIds :
          (Active(r) /\ run[r].i > 0 /\ run'[r] # run[r]) =>
             LET c == heap[Current(r)]
                 after == heap'[Current(r)]
             IN IF c.status # "Error" /\ after.status = "Error"
                THEN /\ Len(run'[r].errors) = Len(run[r].errors) + 1
                     /\ SubSeq(run'[r].errors, 1, Len(run[r].errors)) = run[r].errors
                     /\ run'[r].errors[Len(run'[r].errors)].email = c.email
                ELSE run'[r].errors = run[r].errors]_vars

\* a run returned the summary of one contact sent and one contact failed
C10_Witness ==
  \E r \in RunIds :
    /\ Completed(r)
    /\ run[r].result.stats = [sent |-> 1, failed |-> 1, total |-> 2]
    /\ Len(run[r].result.errors) = 1

\* --------------------------------------------------------- claims on the store
\* the contacts of heap' that the step created
Created == { ref \in 1..Len(heap') : ref \notin Refs }

\* C11: every contact inserted by addContact or addContacts enters the store, at
\* the end of the list, with status Pending, sentTimestamp null and openTimestamp
\* null, whatever the store holds and whatever fields the caller supplied.
C11_InsertedPending ==
  [][/\ \A ref \in Created :
          /\ heap'[ref].status = "Pending"
          /\ heap'[ref].sentTimestamp = Null
          /\ heap'[ref].openTimestamp = Null
     /\ Created # {} =>
          contacts' = contacts \o [k \in 1..Cardinality(Created) |-> Len(heap) + k]]_vars

\* the contact whose data came with status Sent and both timestamps is in the store
C11_Witness ==
  \E ref \in Range(contacts) :
    /\ heap[ref].email = << "b", "@", "x" >>
    /\ heap[ref].status = "Pending"
    /\ heap[ref].sentTimestamp = Null
    /\ heap[ref].openTimestamp = Null

\* the numeric ids of the contacts in the store
StoreIdValues == { DigitsValue(heap[ref].id, 0) : ref \in Range(contacts) }
\* the largest of a set of naturals, 0 for the empty set
MaxOf(S) == IF S = {} THEN 0 ELSE CHOOSE m \in S : \A x \in S : x <= m

\* C12: ids come from the current maximum.  addContact gives the new contact the
\* id max(ids in the store, 0) + 1: "1" in an empty store, also when contacts were
\* created and deleted before; addContacts gives the k-th contact of the batch the
\* id (maximum before the batch) + k.
C12_IdFromCurrentMax ==
  [][/\ \A contactData \in ContactInputs :
          addContact(contactData) =>
            /\ heap'[Len(heap')].id = toString(MaxOf(StoreIdValues) + 1)
            /\ contacts = <<>> => heap'[Len(heap')].id = << "1" >>
     /\ \A contactsData \in BatchInputs :
          addContacts(contactsData) =>
            \A k \in 1..Len(contactsData) :
              heap'[Len(heap) + k].id = toString(MaxOf(StoreIdValues) + k)]_vars

\* the only contact of the store has id "1", as had a contact deleted before it
C12_Witness ==
  /\ Len(heap) = 2
  /\ contacts = << 2 >>
  /\ heap[1].id = << "1" >>
  /\ heap[2].id = << "1" >>

C14_OnlyRunnerWritesDelivery ==
  [][/\ StoreNext =>
          \A ref \in Refs :
            /\ heap'[ref].id = heap[ref].id
            /\ heap'[ref].status = heap[ref].status
            /\ heap'[ref].sentTimestamp = heap[ref].sentTimestamp
     /\ \A ref \in Refs :
          /\ heap'[ref].id = heap[ref].id
          /\ heap'[ref].sentTimestamp # heap[ref].sentTimestamp =>
               \E r \in RunIds : run[r].pc = "resultJson" /\ ref = Current(r)]_vars

\* a contact sent at the first clock reading was tracked and cleaned afterwards
C14_Witness ==
  \E ref \in Range(contacts) :
    /\ heap[ref].status = "Sent"
    /\ heap[ref].sentTimestamp = toISOString(1)
    /\ heap[ref].openTimestamp = toISOString(2)
    /\ heap[ref].email = << "a", "@", "x" >>

\* C15: only the tracking route writes openTimestamp.  A contact is created with
\* openTimestamp null, and the only step that changes the openTimestamp of an
\* existing contact is the handling of a tracking request that carries the id of
\* that contact while it is in the store: no step of sendCampaign (success or
\* failure), cleanContacts, deleteContacts, updateCampaign, getAnalytics or an
\* insertion changes it.
C15_OnlyTrackingWritesOpen ==
  [][\A ref \in 1..Len(heap') :
       IF ref \in Refs
       THEN heap'[ref].openTimestamp # heap[ref].openTimestamp =>
              /\ InStore(ref)
              /\ GET(heap[ref].id)
              /\ heap[ref].openTimestamp = Null
              /\ heap'[ref].openTimestamp = toISOString(clock)
       ELSE heap'[ref].openTimestamp = Null]_vars

\* an opened contact went through the failure path of a run, and a contact that
\* was sent has never been opened
C15_Witness ==
  /\ \E ref \in Range(contacts) :
       heap[ref].status = "Error" /\ heap[ref].openTimestamp # Null
  /\ \E ref \in Range(contacts) :
       heap[ref].status = "Sent" /\ heap[ref].openTimestamp = Null

\* contact data in which a required field is missing or empty
LacksRequiredField(contactData) ==
  \E f \in {"firstName", "lastName", "email"} :
    f \notin DOMAIN contactData \/ contactData[f] = <<>>

\* C16: input validation.  A call of addContact whose data lacks a required field
\* (firstName, lastName or email missing or empty), or of addContacts with such a
\* contact in the batch, leaves the contact store unchanged.
C16_MissingFieldRejected ==
  [][/\ \A contactData \in ContactInputs :
          (LacksRequiredField(contactData) /\ addContact(contactData)) =>
             UNCHANGED << heap, contacts >>
     /\ \A contactsData \in BatchInputs :
          ((\E k \in 1..Len(contactsData) : LacksRequiredField(contactsData[k]))
             /\ addContacts(contactsData)) =>
             UNCHANGED << heap, contacts >>]_vars

\* a run that returned at the test of pendingContacts.length
Skipped(r) == run[r].pc = "done" /\ DOMAIN run[r].result = {"success", "message"}

\* C17: a run that found no Pending contact has returned a result that is not
\* flagged as a failure, and has done no partial work: nothing submitted, nothing
\* counted as sent.
C17_NothingToDoIsNotAFailure ==
  \A r \in RunIds :
    Skipped(r) =>
      /\ run[r].result.success = TRUE
      /\ run[r].submitted = <<>>
      /\ run[r].emailsSent = 0
      /\ \A m \in inflight : m.run # r

\* C17 as amended: when sendCampaign finds no Pending contact, the result it
\* reports is { success: false, message: "No pending contacts to send to!" },
\* and it stops before any partial work: the step that returns it is the step
\* out of the initial delay, taken when no contact of the store is Pending, and
\* it submits nothing, counts nothing and leaves store and campaign unchanged;
\* a run returns this result in no other case.
C17_NothingToDoIsFlaggedFailed ==
  [][\A r \in RunIds :
       /\ (run[r].pc = "delay" /\ StorePending = {} /\ run'[r] # run[r]) =>
             /\ run'[r].pc = "done"
             /\ run'[r].result.success = FALSE
             /\ run'[r].result.message = "No pending contacts to send to!"
             /\ DOMAIN run'[r].result = {"success", "message"}
       /\ (run[r].pc # "done" /\ run'[r].pc = "done"
             /\ DOMAIN run'[r].result = {"success", "message"}) =>
             /\ run[r].pc = "delay"
             /\ StorePending = {}
             /\ run'[r].submitted = <<>>
             /\ run'[r].emailsSent = 0
             /\ run'[r].emailsFailed = 0
             /\ \A m \in inflight' : m.run # r
             /\ UNCHANGED << heap, contacts, campaign, inflight >>]_vars

\* a run over a store whose contacts are all Sent has returned success false
C17_Witness ==
  \E r \in RunIds :
    /\ Skipped(r)
    /\ run[r].result.success = FALSE
    /\ contacts # <<>>
    /\ \A ref \in Range(contacts) : heap[ref].status = "Sent"

\* the number of contacts of the store with status st
StatusCount(st) == Cardinality({ ref \in Range(contacts) : heap[ref].status = st })

\* C18: analytics are a function of the current contact list.  In every reachable
\* state the object getAnalytics returns has total = number of contacts, sent,
\* pending and errors = number of contacts in each status, adding up to total,
\* opened = number of contacts with an openTimestamp, openRate 0 when sent is 0
\* and sentRate 0 when total is 0; a call of getAnalytics returns that object and
\* changes nothing else.
C18_Analytics ==
  /\ [](/\ Analytics.total = Len(contacts)
        /\ Analytics.sent = StatusCount("Sent")
        /\ Analytics.pending = StatusCount("Pending")
        /\ Analytics.errors = StatusCount("Error")
        /\ Analytics.sent + Analytics.pending + Analytics.errors = Analytics.total
        /\ Analytics.opened =
             Cardinality({ k \in 1..Len(contacts) : heap[contacts[k]].openTimestamp # Null })
        /\ Analytics.sent = 0 => Analytics.openRate = 0
        /\ Analytics.total = 0 => Analytics.sentRate = 0)
  /\ [][analytics' # analytics =>
          /\ analytics'.total = Len(contacts)
          /\ analytics'.sent + analytics'.pending + analytics'.errors = Len(contacts)
          /\ analytics'.sent = StatusCount("Sent")
          /\ analytics'.opened =
               Cardinality({ k \in 1..Len(contacts) : heap[contacts[k]].openTimestamp # Null })
          /\ UNCHANGED << heap, contacts, campaign, clock, run, inflight, backend,
                          trackResponse, posted >>]_vars

\* getAnalytics returned the figures of a store with one contact opened and in
\* Error, and one contact sent and not opened
C18_Witness ==
  /\ analytics # Null
  /\ analytics.total = 2 /\ analytics.sent = 1 /\ analytics.errors = 1
  /\ analytics.opened = 1 /\ analytics = Analytics
  /\ \E ref \in Range(contacts) : heap[ref].status = "Error" /\ heap[ref].openTimestamp # Null

\* pat occurs in s
Contains(s, pat) == \E k \in 1..Len(s) : MatchAt(s, pat, k, FALSE)

\* C19: updateCampaign merges into the one campaign record.  After the call every
\* field of the supplied data has the supplied value, every other field keeps
\* its value, and the contact list is unchanged.  A run reads the campaign at the
\* moment it processes a contact: the message it submits carries the subject and
\* the body made from the campaign of that moment, so the subject is "Receive!"
\* and the body starts "On " exactly when the campaign has been updated by then.
C19_CampaignMerge ==
  [][/\ \A data \in CampaignInputs :
          updateCampaign(data) =>
            /\ \A f \in DOMAIN data : campaign'[f] = data[f]
            /\ \A f \in DOMAIN campaign \ DOMAIN data : campaign'[f] = campaign[f]
            /\ DOMAIN campaign' = DOMAIN campaign
            /\ UNCHANGED << heap, contacts >>
     /\ \A m \in inflight' \ inflight :
          /\ (campaign.subject = << "W", "I", "N", "!", "!" >>)
               <=> (m.body.subject = << "R", "e", "c", "e", "i", "v", "e", "!" >>)
          /\ (campaign.subject = InitCampaign.subject)
               <=> Contains(m.body.subject, << "C", "o", "m", "p", "l", "i" >>)
          /\ (campaign.body # InitCampaign.body)
               <=> Contains(m.body.htmlContent, << ">", "O", "n", " " >>)
          /\ (campaign.body = InitCampaign.body)
               <=> Contains(m.body.htmlContent, << ">", "D", "e", "a", "r", " " >>)]_vars

\* the campaign was updated and the second contact of a run is submitted with the
\* updated subject
C19_Witness ==
  \E r \in RunIds :
    /\ run[r].i = 2
    /\ campaign.senderName = InitCampaign.senderName
    /\ campaign.replyTo = << "r", "@", "x" >>
    /\ \E m \in inflight :
         m.run = r /\ m.body.subject = << "R", "e", "c", "e", "i", "v", "e", "!" >>

\* -------------------------------------------------- claims on the text functions
KnownTokens ==
  { << "{","{","f","i","r","s","t","N","a","m","e","}","}" >>,
    << "{","{","l","a","s","t","N","a","m","e","}","}" >>,
    << "{","{","f","u","l","l","N","a","m","e","}","}" >>,
    << "{","{","d","a","t","e","}","}" >> }

\* the {{...}} tokens of a text: two opening braces, text without a brace, two
\* closing braces
TokensOf(s) ==
  { t \in { SubSeq(s, a, b) : a \in 1..Len(s), b \in 1..Len(s) } :
      /\ Len(t) >= 4
      /\ t[1] = "{" /\ t[2] = "{" /\ t[Len(t) - 1] = "}" /\ t[Len(t)] = "}"
      /\ \A k \in 3..(Len(t) - 2) : t[k] \notin {"{", "}"} }

\* every pair of opening braces of the template begins one of the four tokens
OnlyKnownTokens(template) ==
  \A k \in 1..Len(template) :
    MatchAt(template, << "{", "{" >>, k, FALSE) =>
      \E token \in KnownTokens : MatchAt(template, token, k, FALSE)

\* C20: personalizeContent.  For every template of the campaign and every contact
\* of the store: if the only tokens of the template are {{firstName}},
\* {{lastName}}, {{fullName}} and {{date}}, the output contains none of these four
\* token texts, whatever the names of the contact hold; and every other {{...}}
\* token of the template occurs in the output.
C20_NoKnownTokenLeft ==
  \A ref \in Range(contacts) :
    \A template \in { campaign.subject, campaign.body } :
      LET output == personalizeContent(template, heap[ref])
      IN /\ OnlyKnownTokens(template) =>
              \A token \in KnownTokens : ~Contains(output, token)
         /\ \A token \in TokensOf(template) \ KnownTokens : Contains(output, token)

\* ---- C21, C22: the subject sanitizer
ContainsIgnoreCase(s, pat) == \E k \in 1..Len(s) : MatchAt(s, pat, k, TRUE)

\* the subject a run hands to createAntiSpamSubject for a contact, and the result
SubjectIn(ref) == personalizeContent(campaign.subject, heap[ref])
SubjectOut(ref) == createAntiSpamSubject(SubjectIn(ref), heap[ref].firstName)

\* C21: createAntiSpamSubject applies all twelve table entries: whenever the
\* subject contains the phrase of an entry, in any letter case, the output holds
\* that entry's replacement (no entry is shadowed by an earlier one), and the
\* output for "FREE MONEY" contains neither "FREE" nor "MONEY".
C21_EveryEntryApplied ==
  \A ref \in Range(contacts) :
    /\ \A k \in 1..Len(spamWords) :
         ContainsIgnoreCase(SubjectIn(ref), spamWords[k][1])
           => Contains(SubjectOut(ref), spamWords[k][2])
    /\ SubjectIn(ref) = << "F","R","E","E"," ","M","O","N","E","Y" >>
         => /\ ~Contains(SubjectOut(ref), << "F","R","E","E" >>)
            /\ ~Contains(SubjectOut(ref), << "M","O","N","E","Y" >>)

\* characters of s other than '!' and '?'
NoMarks(s) ==
  LET Kept(c) == c \notin {"!", "?"}
  IN SelectSeq(s, Kept)

NoAdjacent(s, c) == \A k \in 1..(Len(s) - 1) : ~(s[k] = c /\ s[k + 1] = c)

SentenceCase(s) ==
  /\ s # <<>> => s[1] = UpperChar(s[1])
  /\ \A k \in 2..Len(s) : s[k] = LowerChar(s[k])

\* C22: the output of createAntiSpamSubject has no two adjacent '!' and no two
\* adjacent '?', in every request a run submits and for every subject; if the
\* text after the table substitutions is entirely upper-case and longer than 5
\* characters the output is in sentence case ("HELLO!!!" gives "Hello!"),
\* otherwise the letters are those of the substituted text, case unchanged.
C22_Normalization ==
  /\ \A m \in inflight : NoAdjacent(m.body.subject, "!") /\ NoAdjacent(m.body.subject, "?")
  /\ \A ref \in Range(contacts) :
       LET substituted == ApplySpamWords(SubjectIn(ref), 1)
           out == SubjectOut(ref)
       IN /\ NoAdjacent(out, "!") /\ NoAdjacent(out, "?")
          /\ IF substituted = toUpperCase(substituted) /\ Len(substituted) > 5
             THEN /\ SentenceCase(out)
                  /\ toLowerCase(NoMarks(out)) = toLowerCase(NoMarks(substituted))
             ELSE NoMarks(out) = NoMarks(substituted)
          /\ SubjectIn(ref) = << "H","E","L","L","O","!","!","!" >>
               => out = << "H","e","l","l","o","!" >>

\* a run has submitted the subject "Hello!" made from "HELLO!!!", and a short
\* upper-case subject is in the campaign
C22_Witness ==
  /\ \E m \in inflight : m.body.subject = << "H","e","l","l","o","!" >>
  /\ campaign.subject = << "H","E","L","L","O","!","!","!" >>
  /\ contacts # <<>>

\* C23: with runs invoked one after the other, the only status changes of a
\* contact are Pending -> Sent and Pending -> Error (Sent and Error are final),
\* and a sentTimestamp that is not null is never overwritten or cleared.
C23_StatusMonotone ==
  [][\A ref \in Refs :
       /\ heap'[ref].status # heap[ref].status
            => heap[ref].status = "Pending" /\ heap'[ref].status \in {"Sent", "Error"}
       /\ heap[ref].sentTimestamp # Null
            => heap'[ref].sentTimestamp = heap[ref].sentTimestamp]_vars

\* a contact is Sent with its timestamp, another is Error, the clock has moved on
\* since the send, and a later run has found nothing Pending and returned
C23_Witness ==
  \E a, b \in Range(contacts) :
    /\ heap[a].status = "Sent" /\ heap[a].sentTimestamp # Null
    /\ heap[a].sentTimestamp # toISOString(clock)
    /\ heap[b].status = "Error"
    /\ \E r \in RunIds : run[r].pc = "done" /\ Skipped(r)

\* the submissions of a contact to the transport, over all invocations
Submissions(ref) ==
  { << r, k >> \in RunIds \X (1..MaxObjs) :
      k <= Len(run[r].submitted) /\ run[r].submitted[k] = ref }

\* C24: even when sendCampaign is invoked while an earlier invocation is
\* suspended, each contact is submitted to the transport at most once in total,
\* and a contact already Sent is not afterwards set to Error.
C24_NoDuplicateDelivery ==
  [][\A ref \in Refs :
       /\ Cardinality(Submissions(ref)') <= 1
       /\ heap[ref].status = "Sent" => heap'[ref].status # "Error"]_vars

\* the runs whose POST has been answered by a handler that called sendMail
Mailed == { r \in RunIds : /\ run[r].pc \in {"resultJson", "errorJson"}
                            /\ run[r].response.sentMail # Null }

\* C25: the message that reaches sendMail for a contact processed by a run has
\* that contact's email address as its 'to' recipient and the sanitized
\* personalized subject as its subject.
C25_RecipientAddressing ==
  \A r \in Mailed :
    /\ run[r].response.sentMail.to = heap[Current(r)].email
    /\ run[r].response.sentMail.subject = SubjectOut(Current(r))

\* C26: a contact that deleteContacts removes while a run is in progress, before
\* the run has reached it, is not submitted by the run (every contact a run
\* submits is in the store at that moment), and a removed contact does not come
\* back into the store.
C26_DeletedNotSubmitted ==
  [][/\ \A r \in RunIds :
          Len(run'[r].submitted) > Len(run[r].submitted)
            => run'[r].submitted[Len(run'[r].submitted)] \in Range(contacts)
     /\ \A ref \in Refs : ref \notin Range(contacts) => ref \notin Range(contacts')]_vars

\* ---- C27: the guards of POST /api/send-contact
MissingField(body) == body.name = <<>> \/ body.email = <<>> \/ body.message = <<>>

\* what the claim says of the answer res to a request body
GuardedAnswer(body, res) ==
  /\ res.sentMail # Null <=> (backend.emailService # Null /\ ~MissingField(body))
  /\ backend.emailService = Null => res.status = 500 /\ ~res.json.success
  /\ backend.emailService # Null /\ MissingField(body)
       => res.status = 400 /\ ~res.json.success
  /\ res.sentMail # Null => res.status \in {200, 500}
  /\ res.json.success <=> res.status = 200
  /\ res.ok <=> res.status = 200

\* C27: the handler of POST /api/send-contact calls sendMail only if the email
\* service object exists and name, email and message are not empty; otherwise it
\* answers 500 or 400 with success false and sends nothing; a failure of
\* sendMail is answered with 500 and success false; and a run whose POST got an
\* answer that is not ok marks the contact Error and counts the failure.
C27_BackendGuards ==
  [][/\ posted' # posted
          => /\ GuardedAnswer(posted'.body, posted'.response)
             /\ posted'.response.sentMail # Null
                  => (posted'.response.status = 500 <=> ~posted'.sendMailOk)
     /\ \A r \in RunIds :
          /\ run[r].pc = "send" /\ run'[r].pc \in {"errorJson", "resultJson"}
               => /\ \A m \in inflight \ inflight' :
                       GuardedAnswer(m.body, run'[r].response)
                  /\ run'[r].pc = "errorJson" <=> run'[r].response.status # 200
          /\ run[r].pc = "errorJson" /\ run'[r] # run[r]
               => /\ heap'[Current(r)].status = "Error"
                  /\ run'[r].emailsFailed = run[r].emailsFailed + 1
                  /\ Len(run'[r].errors) = Len(run[r].errors) + 1]_vars

\* another client's request without a name has been answered 400, and a run has
\* marked one contact Error after a failure of sendMail and another after the 400
\* its own request got
C27_Witness ==
  /\ posted # Null /\ posted.response.status = 400 /\ posted.body.name = <<>>
  /\ \E r \in RunIds :
       /\ Len(run[r].errors) = 2
       /\ { run[r].errors[k].message : k \in 1..2 }
            = { "Backend error: Failed to send email",
                "Backend error: Name, email, and message are required" }
       /\ \A k \in 1..2 : heap[run[r].pendingContacts[k]].status = "Error"

\* C28: /api/health reports emailService 'loaded' only after the verify callback
\* has succeeded: never while the verification is pending, never without a
\* transport object (nodemailer missing or invalid, SMTP settings missing), never
\* after a failed verification; and a run makes its first transport submission
\* only in the step that follows a health check whose answer said 'loaded'.
C28_ReadinessOrdering ==
  /\ [](/\ HealthBody.emailService = "loaded"
             => backend.emailService # Null /\ ~backend.verifyPending
         /\ \A r \in RunIds : run[r].submitted # <<>> => HealthBody.emailService = "loaded")
  /\ [][/\ HealthBody'.emailService = "loaded" /\ HealthBody.emailService # "loaded"
             => VerifyCallback(FALSE)
        /\ VerifyCallback(TRUE) => HealthBody'.emailService # "loaded"
        /\ HealthBody.emailService = "loaded" => HealthBody'.emailService = "loaded"
        /\ \A r \in RunIds :
             run[r].submitted = <<>> /\ run'[r].submitted # <<>>
               => /\ run[r].pc = "healthJson"
                  /\ run[r].response.emailService = "loaded"]_vars

\* the verification has succeeded and a run, having seen 'loaded' in the health
\* check, has made a submission that is not yet answered
C28_Witness ==
  /\ HealthBody.emailService = "loaded"
  /\ \E r \in RunIds : run[r].submitted # <<>> /\ run[r].pc = "send"
====
